---- MODULE Spec2Model ----
(***************************************************************************)
(* Model of pr_tool.py: one command-line invocation dispatches to          *)
(* checkout_pr, prune_branches or the help text.  Text is modelled as      *)
(* sequences of one-character strings, so that the f-strings, strip(),     *)
(* lstrip('* '), split() and the `in` tests of the script are computed the *)
(* way Python computes them.  The git repository (its local branches and   *)
(* HEAD) is the environment the script's commands act on; it persists      *)
(* from one invocation of the script to the next.                          *)
(***************************************************************************)
EXTENDS Integers, Sequences, FiniteSets, TLC

\* Number of invocations of the script in one behaviour.
MaxRuns == 2

\* ------------------------------------------------------------------ text

NL == "\n"
\* Characters str.strip() and str.split() treat as whitespace.
Whitespace == {" ", NL}

Empty == << >>

\* s.lstrip(chars): drop the leading characters that are in chars.
RECURSIVE lstrip(_, _)
lstrip(s, chars) ==
    IF s # Empty /\ Head(s) \in chars THEN lstrip(Tail(s), chars) ELSE s

\* s.rstrip(): drop the trailing whitespace.
RECURSIVE rstrip(_)
rstrip(s) ==
    IF s # Empty /\ s[Len(s)] \in Whitespace
    THEN rstrip(SubSeq(s, 1, Len(s) - 1))
    ELSE s

\* s.strip(): drop leading and trailing whitespace.
strip(s) == rstrip(lstrip(s, Whitespace))

\* The first line of s and what follows its line break.
RECURSIVE FirstLine(_)
FirstLine(s) ==
    IF s = Empty \/ Head(s) = NL THEN Empty ELSE <<Head(s)>> \o FirstLine(Tail(s))

RestLines(s) ==
    LET n == Len(FirstLine(s)) IN
    IF n + 1 >= Len(s) THEN Empty ELSE SubSeq(s, n + 2, Len(s))

\* s.splitlines(): the lines of s, line breaks removed; no lines for "".
RECURSIVE splitlines(_)
splitlines(s) ==
    IF s = Empty THEN << >> ELSE <<FirstLine(s)>> \o splitlines(RestLines(s))

\* The leading run of non-whitespace characters of s.
RECURSIVE Word(_)
Word(s) ==
    IF s = Empty \/ Head(s) \in Whitespace THEN Empty ELSE <<Head(s)>> \o Word(Tail(s))

\* line.split()[0]: the first whitespace-separated token of a line that has one.
FirstToken(line) == Word(lstrip(line, Whitespace))

\* sub in s, for strings.
Contains(s, sub) ==
    \E k \in 1..(Len(s) - Len(sub) + 1) : SubSeq(s, k, k + Len(sub) - 1) = sub

\* x in xs, for lists.
InList(x, xs) == \E k \in 1..Len(xs) : xs[k] = x

\* ------------------------------------------------------------- constants

main == <<"m", "a", "i", "n">>
master == <<"m", "a", "s", "t", "e", "r">>
GoneMarker == <<"[", "g", "o", "n", "e", "]">>
\* The set of characters of lstrip('* ').
MarkerChars == {"*", " "}
\* What the shell command `git branch -D *` names: the glob, not a branch.
Star == <<"*">>

\* ---------------------------------------------------------------- inputs

None == <<"None">>

\* argv: the optional positional pr_number (absent, empty, or a number).
PrNumbers == {None, Empty, <<"4", "2">>}
\* head.repo.owner.username of a PR record.
Authors == {<<"a">>, <<"a", "-", "b">>}
\* head.ref of a PR record.
Refs == {<<"c">>, <<"b", "-", "c">>}
\* base.ref of a PR record.
Bases == {main, master}

\* The PR records the forge can answer with.
PrRecords ==
    [merged : BOOLEAN, state : {"open", "closed"},
     author : Authors, ref : Refs, base : Bases]

NoPr == [merged |-> FALSE, state |-> "none", author |-> Empty, ref |-> Empty, base |-> Empty]

\* local_branch = f"PR/{pr_number}/{pr_author}-{pr_branch}"
LocalBranchName(pr_number, pr_author, pr_branch) ==
    <<"P", "R", "/">> \o pr_number \o <<"/">> \o pr_author \o <<"-">> \o pr_branch

\* ------------------------------------------------------- the repository

\* The name `git branch --show-current` prints in a detached HEAD: nothing.
Detached == Empty

\* "(HEAD detached at 0)", what the branch listings show for a detached HEAD.
DetachedText ==
    <<"(", "H", "E", "A", "D", " ", "d", "e", "t", "a", "c", "h", "e", "d", " ",
      "a", "t", " ", "0", ")">>

\* Every branch name the model's repository can hold, in the order git lists
\* them (by byte value of the name).
BranchOrder ==
    << LocalBranchName(<<"4", "2">>, <<"a">>, <<"b", "-", "b", "-", "c">>),
       LocalBranchName(<<"4", "2">>, <<"a">>, <<"b", "-", "c">>),
       LocalBranchName(<<"4", "2">>, <<"a">>, <<"c">>),
       main, master >>

\* The text of a list of lines, each ended by a line break.
RECURSIVE JoinLines(_)
JoinLines(lines) ==
    IF lines = << >> THEN Empty ELSE Head(lines) \o <<NL>> \o JoinLines(Tail(lines))

\* The marker column of the branch listings: "* " on the checked-out branch.
Marker(b, hd) == IF b = hd THEN <<"*", " ">> ELSE <<" ", " ">>

\* No text after the branch names: the plain listings.
NoTrailer(brs) == [b \in brs |-> Empty]

\* The lines of a listing of the branches brs, in listing order: the marker,
\* the name, and trailer[name].
ListingLines(brs, hd, trailer) ==
    LET rows == SelectSeq(BranchOrder, LAMBDA b : b \in brs)
        body == [k \in 1..Len(rows) |-> Marker(rows[k], hd) \o rows[k] \o trailer[rows[k]]]
    IN  IF hd = Detached THEN <<<<"*", " ">> \o DetachedText>> \o body ELSE body

\* What follows the name on a line of `git branch -vv`: the commit, the
\* upstream in brackets, the commit's subject.  Either the upstream is shown
\* the way git shows a deleted one, or the line holds the literal [gone].
Trailers ==
    { <<" ", "0", " ", "[", "o", ":", " ", "g", "o", "n", "e", "]", " ", "s">>,
      <<" ", "0", " ">> \o GoneMarker \o <<" ", "s">> }

\* An outcome of one command: whether it exited 0, its standard output, and
\* the repository after it.
Outcome(ok, stdout, brs, hd) ==
    [ok |-> ok, stdout |-> stdout, branches |-> brs, head |-> hd]

Failed(brs, hd) == Outcome(FALSE, Empty, brs, hd)

Cmd(op, a, b) == [op |-> op, a |-> a, b |-> b]

\* The outcomes git can give for a command on the repository (brs, hd).
\* Every command can exit non-zero.
GitRun(cmd, brs, hd) ==
    {Failed(brs, hd)} \cup
    CASE cmd.op = "git branch --show-current" ->
           {Outcome(TRUE, IF hd = Detached THEN Empty ELSE hd \o <<NL>>, brs, hd)}
      [] cmd.op = "git checkout" ->
           IF cmd.a \in brs THEN {Outcome(TRUE, Empty, brs, cmd.a)} ELSE {}
      [] cmd.op = "git branch" ->
           {Outcome(TRUE, JoinLines(ListingLines(brs, hd, NoTrailer(brs))), brs, hd)}
      [] cmd.op \in {"git branch -D", "git branch -d"} ->
           IF cmd.a = Star
           THEN \* the shell expands * to the names in the working directory
                {Outcome(TRUE, Empty, brs \ gone, hd) :
                    gone \in {{}} \cup {{b} : b \in brs \ {hd}}}
           ELSE IF cmd.a \in brs /\ cmd.a # hd
                THEN {Outcome(TRUE, Empty, brs \ {cmd.a}, hd)}
                ELSE {}
      [] cmd.op = "git checkout -b" ->
           IF cmd.a \notin brs /\ cmd.b \in brs
           THEN {Outcome(TRUE, Empty, brs \cup {cmd.a}, cmd.a)}
           ELSE {}
      [] cmd.op = "git branch --merged" ->
           {Outcome(TRUE,
                    JoinLines(ListingLines(m \cup ({hd} \cap brs), hd, NoTrailer(brs))),
                    brs, hd) : m \in SUBSET (brs \ {hd})}
      [] cmd.op = "git branch -vv" ->
           {Outcome(TRUE, JoinLines(ListingLines(brs, hd, t)), brs, hd) :
                t \in [brs -> Trailers]}
      [] OTHER -> \* git pull, git fetch --prune: no local branch changes
           {Outcome(TRUE, Empty, brs, hd)}

\* ----------------------------------------------------------------- state

VARIABLES
    run,                \* number of the current invocation of the script
    args,               \* the parsed command line: prune, pr_number
    pc,                 \* the statement the invocation is at
    status,             \* "running", "returned", or the exception that ended it
    cmds,               \* the commands run_cmd has issued in this invocation, each
                        \* with its exit status and the repository it ran on
    out,                \* the messages printed in this invocation
    http,               \* the HTTP requests made in this invocation
    pr_data,            \* the PR record fetch_pr_json returned
    local_branch, base_branch, current_branch, existing_branches,
    merged_branches, gone_branches,
    i,                  \* position of the running for loop in its list
    branches, head,     \* the repository: local branches and the checked-out one
    computed            \* history: every (PR tuple, local branch name) computed

locals ==
    <<pr_data, local_branch, base_branch, current_branch, existing_branches,
      merged_branches, gone_branches, i>>

vars ==
    <<run, args, pc, status, cmds, out, http, locals, branches, head, computed>>

\* The process exit code of an ended invocation: 0 after a normal return,
\* 1 after sys.exit(1) and after an uncaught exception.
ExitCode == IF status = "returned" THEN 0 ELSE 1

Msg(msg, arg) == [msg |-> msg, arg |-> arg]

\* parser.parse_args(): --prune is a flag, pr_number an optional positional.
ArgSet == [prune : BOOLEAN, pr_number : PrNumbers]

\* Python's truth value of args.pr_number: None and "" are false.
Truthy(x) == x # None /\ x # Empty

\* No local variable of the script is bound when it starts.
FreshLocals ==
    /\ pr_data = NoPr
    /\ local_branch = Empty
    /\ base_branch = Empty
    /\ current_branch = Empty
    /\ existing_branches = << >>
    /\ merged_branches = << >>
    /\ gone_branches = << >>
    /\ i = 0

\* The repositories an invocation can start in.
InitBranchSets == {{main} \cup extra : extra \in SUBSET {master, BranchOrder[2]}}

Init ==
    /\ run = 1
    /\ args \in ArgSet
    /\ pc = "main"
    /\ status = "running"
    /\ cmds = << >>
    /\ out = << >>
    /\ http = 0
    /\ FreshLocals
    /\ branches \in InitBranchSets
    /\ head \in branches \cup {Detached}
    /\ computed = {}

\* run_cmd(cmd): the command is issued and git answers with outcome r.
run_cmd(cmd, r) ==
    /\ cmds' = Append(cmds, [op |-> cmd.op, a |-> cmd.a, b |-> cmd.b, ok |-> r.ok,
                              head |-> head, branches |-> branches])
    /\ branches' = r.branches
    /\ head' = r.head

\* Mutant: check=False, the exit status is not looked at.
Succeeded_Unchecked(r) == TRUE

\* check=True: a non-zero exit makes subprocess.run raise CalledProcessError.
Succeeded(r) == r.ok

\* An exception nothing catches (or sys.exit) ends the invocation.
Raise(exception) ==
    /\ status' = exception
    /\ pc' = "exit"

Return ==
    /\ status' = "returned"
    /\ pc' = "exit"

\* Mutant: the captured output is returned without strip().
Captured_Unstripped(r) == r.stdout

\* capture_output=True: result.stdout.strip()
Captured(r) == strip(r.stdout)

\* ---------------------------------------------------------------- main()

\* Mutant: pr_number is tested before --prune.
Main_PrNumberFirst ==
    /\ pc = "main"
    /\ IF Truthy(args.pr_number)
       THEN /\ pc' = "checkout_pr"
            /\ UNCHANGED <<status, out>>
       ELSE IF args.prune
       THEN /\ pc' = "prune_branches"
            /\ UNCHANGED <<status, out>>
       ELSE /\ out' = Append(out, Msg("help", Empty))
            /\ Return
    /\ UNCHANGED <<run, args, cmds, http, locals, branches, head, computed>>

\* if args.prune / elif args.pr_number / else parser.print_help()
Main ==
    /\ pc = "main"
    /\ IF args.prune
       THEN /\ pc' = "prune_branches"
            /\ UNCHANGED <<status, out>>
       ELSE IF Truthy(args.pr_number)
       THEN /\ pc' = "checkout_pr"
            /\ UNCHANGED <<status, out>>
       ELSE /\ out' = Append(out, Msg("help", Empty))
            /\ Return
    /\ UNCHANGED <<run, args, cmds, http, locals, branches, head, computed>>

\* The script is run again, on the repository the last run left.
Invoke ==
    /\ pc = "exit"
    /\ run < MaxRuns
    /\ run' = run + 1
    /\ args' \in ArgSet
    /\ pc' = "main"
    /\ status' = "running"
    /\ cmds' = << >>
    /\ out' = << >>
    /\ http' = 0
    /\ pr_data' = NoPr
    /\ local_branch' = Empty
    /\ base_branch' = Empty
    /\ current_branch' = Empty
    /\ existing_branches' = << >>
    /\ merged_branches' = << >>
    /\ gone_branches' = << >>
    /\ i' = 0
    /\ UNCHANGED <<branches, head, computed>>

\* ----------------------------------------------------------- checkout_pr

\* What urlopen can do: answer with the PR record, raise HTTPError (a
\* non-2xx response) or raise URLError (no connection).
FetchOutcomes == {"ok", "HTTPError", "URLError"}

\* The exceptions the except clause of fetch_pr_json catches.
CaughtByFetch == {"HTTPError"}

\* pr_data = fetch_pr_json(owner, repo, pr_number)
FetchPrJson ==
    /\ pc = "checkout_pr"
    /\ http' = http + 1
    /\ \E res \in FetchOutcomes :
          IF res = "ok"
          THEN /\ \E rec \in PrRecords : pr_data' = rec
               /\ pc' = "merged?"
               /\ UNCHANGED <<status, out>>
          ELSE IF res \in CaughtByFetch
          THEN /\ out' = Append(out, Msg("Error fetching PR data", <<res>>))
               /\ Raise("SystemExit(1)")
               /\ UNCHANGED pr_data
          ELSE /\ Raise(res)
               /\ UNCHANGED <<out, pr_data>>
    /\ UNCHANGED <<run, args, cmds, local_branch, base_branch, current_branch,
                   existing_branches, merged_branches, gone_branches, i,
                   branches, head, computed>>

\* pr_data.get('merged')
IsMerged(rec) == rec.merged

\* Mutant: the state is compared with a misspelt word.
IsClosed_Misspelt(rec) == rec.state = "close"

\* pr_data.get('state') == 'closed'
IsClosed(rec) == rec.state = "closed"

\* if pr_data.get('merged'): print the merge, return
CheckoutPrMerged ==
    /\ pc = "merged?"
    /\ IsMerged(pr_data)
    /\ out' = out \o <<Msg("is already merged", args.pr_number),
                        Msg("Merged at", Empty), Msg("Merged by", Empty)>>
    /\ Return
    /\ UNCHANGED <<run, args, cmds, http, locals, branches, head, computed>>

\* if pr_data.get('state') == 'closed': print it, return
CheckoutPrClosed ==
    /\ pc = "merged?"
    /\ ~IsMerged(pr_data)
    /\ IsClosed(pr_data)
    /\ out' = Append(out, Msg("is closed", args.pr_number))
    /\ Return
    /\ UNCHANGED <<run, args, cmds, http, locals, branches, head, computed>>

\* The open PR: the names are taken from the record and the banner printed.
CheckoutPrOpen ==
    /\ pc = "merged?"
    /\ ~IsMerged(pr_data)
    /\ ~IsClosed(pr_data)
    /\ base_branch' = pr_data.base
    /\ local_branch' = LocalBranchName(args.pr_number, pr_data.author, pr_data.ref)
    /\ computed' = computed \cup
          {[pr_number |-> args.pr_number, author |-> pr_data.author,
            ref |-> pr_data.ref, name |-> local_branch']}
    /\ out' = out \o <<Msg("Pulling PR", args.pr_number), Msg("Incoming branch", Empty),
                        Msg("Base branch", base_branch'),
                        Msg("Local branch", local_branch')>>
    /\ pc' = "show_current"
    /\ UNCHANGED <<run, args, status, cmds, http, pr_data, current_branch,
                   existing_branches, merged_branches, gone_branches, i,
                   branches, head>>

\* Mutant: the base branch is never checked out first.
NeedsCheckout_Never(current, base) == FALSE

\* if current_branch != base_branch
NeedsCheckout(current, base) == current # base

\* current_branch = run_cmd("git branch --show-current", capture_output=True)
ShowCurrent ==
    /\ pc = "show_current"
    /\ \E r \in GitRun(Cmd("git branch --show-current", Empty, Empty), branches, head) :
          /\ run_cmd(Cmd("git branch --show-current", Empty, Empty), r)
          /\ IF Succeeded(r)
             THEN /\ current_branch' = Captured(r)
                  /\ pc' = IF NeedsCheckout(current_branch', base_branch)
                           THEN "checkout_base" ELSE "list_branches"
                  /\ UNCHANGED status
             ELSE /\ Raise("CalledProcessError")
                  /\ UNCHANGED current_branch
    /\ UNCHANGED <<run, args, out, http, pr_data, local_branch, base_branch,
                   existing_branches, merged_branches, gone_branches, i, computed>>

\* if current_branch != base_branch: run_cmd(f"git checkout {base_branch}")
CheckoutBase ==
    /\ pc = "checkout_base"
    /\ \E r \in GitRun(Cmd("git checkout", base_branch, Empty), branches, head) :
          /\ run_cmd(Cmd("git checkout", base_branch, Empty), r)
          /\ IF Succeeded(r)
             THEN pc' = "list_branches" /\ UNCHANGED status
             ELSE Raise("CalledProcessError")
    /\ UNCHANGED <<run, args, out, http, locals, computed>>

\* [b.strip().lstrip('* ') for b in lines]
StripMarkers(lines) ==
    [k \in 1..Len(lines) |-> lstrip(strip(lines[k]), MarkerChars)]

\* Mutant: the membership test is inverted.
LocalExists_Inverted(local, existing) == ~InList(local, existing)

\* if local_branch in existing_branches
LocalExists(local, existing) == InList(local, existing)

\* existing_branches = ...; if local_branch in existing_branches: ... else: ...
ListBranches ==
    /\ pc = "list_branches"
    /\ \E r \in GitRun(Cmd("git branch", Empty, Empty), branches, head) :
          /\ run_cmd(Cmd("git branch", Empty, Empty), r)
          /\ IF Succeeded(r)
             THEN /\ existing_branches' = StripMarkers(splitlines(Captured(r)))
                  /\ IF LocalExists(local_branch, existing_branches')
                     THEN /\ out' = Append(out, Msg("exists, refreshing it", local_branch))
                          /\ pc' = "delete_local"
                     ELSE /\ out' = Append(out, Msg("does not exist", local_branch))
                          /\ pc' = "create_branch"
                  /\ UNCHANGED status
             ELSE /\ Raise("CalledProcessError")
                  /\ UNCHANGED <<existing_branches, out>>
    /\ UNCHANGED <<run, args, http, pr_data, local_branch, base_branch,
                   current_branch, merged_branches, gone_branches, i, computed>>

\* run_cmd(f"git branch -D {local_branch}")
DeleteLocal ==
    /\ pc = "delete_local"
    /\ \E r \in GitRun(Cmd("git branch -D", local_branch, Empty), branches, head) :
          /\ run_cmd(Cmd("git branch -D", local_branch, Empty), r)
          /\ IF Succeeded(r)
             THEN pc' = "create_branch" /\ UNCHANGED status
             ELSE Raise("CalledProcessError")
    /\ UNCHANGED <<run, args, out, http, locals, computed>>

\* run_cmd(f"git checkout -b {local_branch} {base_branch}")
CreateBranch ==
    /\ pc = "create_branch"
    /\ \E r \in GitRun(Cmd("git checkout -b", local_branch, base_branch), branches, head) :
          /\ run_cmd(Cmd("git checkout -b", local_branch, base_branch), r)
          /\ IF Succeeded(r)
             THEN pc' = "pull" /\ UNCHANGED status
             ELSE Raise("CalledProcessError")
    /\ UNCHANGED <<run, args, out, http, locals, computed>>

\* run_cmd(f"git pull ... {pr_branch}"), then the two closing messages.
Pull ==
    /\ pc = "pull"
    /\ \E r \in GitRun(Cmd("git pull", pr_data.ref, Empty), branches, head) :
          /\ run_cmd(Cmd("git pull", pr_data.ref, Empty), r)
          /\ IF Succeeded(r)
             THEN /\ out' = out \o <<Msg("is ready for use", local_branch),
                                     Msg("Pulled PR", args.pr_number)>>
                  /\ Return
             ELSE /\ Raise("CalledProcessError")
                  /\ UNCHANGED out
    /\ UNCHANGED <<run, args, http, locals, computed>>

\* -------------------------------------------------------- prune_branches

\* print("Pruning local branches..."); merged_branches = run_cmd("git branch --merged", ...)
PruneListMerged ==
    /\ pc = "prune_branches"
    /\ out' = Append(out, Msg("Pruning local branches...", Empty))
    /\ \E r \in GitRun(Cmd("git branch --merged", Empty, Empty), branches, head) :
          /\ run_cmd(Cmd("git branch --merged", Empty, Empty), r)
          /\ IF Succeeded(r)
             THEN /\ merged_branches' = splitlines(Captured(r))
                  /\ pc' = "prune_current"
                  /\ UNCHANGED status
             ELSE /\ Raise("CalledProcessError")
                  /\ UNCHANGED merged_branches
    /\ UNCHANGED <<run, args, http, pr_data, local_branch, base_branch,
                   current_branch, existing_branches, gone_branches, i, computed>>

\* current_branch = run_cmd("git branch --show-current", capture_output=True)
PruneShowCurrent ==
    /\ pc = "prune_current"
    /\ \E r \in GitRun(Cmd("git branch --show-current", Empty, Empty), branches, head) :
          /\ run_cmd(Cmd("git branch --show-current", Empty, Empty), r)
          /\ IF Succeeded(r)
             THEN /\ current_branch' = Captured(r)
                  /\ i' = 1
                  /\ pc' = "merged_loop"
                  /\ UNCHANGED status
             ELSE /\ Raise("CalledProcessError")
                  /\ UNCHANGED <<current_branch, i>>
    /\ UNCHANGED <<run, args, out, http, pr_data, local_branch, base_branch,
                   existing_branches, merged_branches, gone_branches, computed>>

\* branch = branch.strip().lstrip('* ')
MergedName(line) == lstrip(strip(line), MarkerChars)

\* if branch and branch != current_branch and branch != 'main' and branch != 'master'
MergedDeletable(line) ==
    /\ MergedName(line) # Empty
    /\ MergedName(line) # current_branch
    /\ MergedName(line) # main
    /\ MergedName(line) # master

\* if '[gone]' in line
GoneDeletable(line) == Contains(line, GoneMarker)

\* branch = line.split()[0]
GoneName(line) == FirstToken(line)

\* The positions of the merged listing the first loop's body acts on.
MergedActing ==
    {j \in 1..Len(merged_branches) : MergedDeletable(merged_branches[j])}

\* The positions of the verbose listing the second loop's body acts on.
GoneActing ==
    {j \in 1..Len(gone_branches) : GoneDeletable(gone_branches[j])}

\* The first position at or after k among acting, where a for loop over n
\* lines acts next; n + 1 when the loop runs out.
NextActing(acting, k, n) ==
    IF \E j \in acting : j >= k
    THEN CHOOSE j \in acting : j >= k /\ \A h \in acting : h >= k => j <= h
    ELSE n + 1

\* for branch in merged_branches: ... run_cmd(f"git branch -d {branch}"); print(...)
PruneMergedLoop ==
    /\ pc = "merged_loop"
    /\ LET j == NextActing(MergedActing, i, Len(merged_branches)) IN
       /\ j <= Len(merged_branches)
       /\ \E r \in GitRun(Cmd("git branch -d", MergedName(merged_branches[j]), Empty),
                          branches, head) :
             /\ run_cmd(Cmd("git branch -d", MergedName(merged_branches[j]), Empty), r)
             /\ IF Succeeded(r)
                THEN /\ out' = Append(out, Msg("Deleted merged branch",
                                               MergedName(merged_branches[j])))
                     /\ i' = j + 1
                     /\ UNCHANGED <<pc, status>>
                ELSE /\ Raise("CalledProcessError")
                     /\ UNCHANGED <<out, i>>
    /\ UNCHANGED <<run, args, http, pr_data, local_branch, base_branch,
                   current_branch, existing_branches, merged_branches,
                   gone_branches, computed>>

\* The first loop is over: run_cmd("git fetch --prune")
PruneFetch ==
    /\ pc = "merged_loop"
    /\ NextActing(MergedActing, i, Len(merged_branches)) > Len(merged_branches)
    /\ \E r \in GitRun(Cmd("git fetch --prune", Empty, Empty), branches, head) :
          /\ run_cmd(Cmd("git fetch --prune", Empty, Empty), r)
          /\ IF Succeeded(r)
             THEN pc' = "list_gone" /\ UNCHANGED status
             ELSE Raise("CalledProcessError")
    /\ UNCHANGED <<run, args, out, http, locals, computed>>

\* gone_branches = run_cmd("git branch -vv", capture_output=True).splitlines()
PruneListGone ==
    /\ pc = "list_gone"
    /\ \E r \in GitRun(Cmd("git branch -vv", Empty, Empty), branches, head) :
          /\ run_cmd(Cmd("git branch -vv", Empty, Empty), r)
          /\ IF Succeeded(r)
             THEN /\ gone_branches' = splitlines(Captured(r))
                  /\ i' = 1
                  /\ pc' = "gone_loop"
                  /\ UNCHANGED status
             ELSE /\ Raise("CalledProcessError")
                  /\ UNCHANGED <<gone_branches, i>>
    /\ UNCHANGED <<run, args, out, http, pr_data, local_branch, base_branch,
                   current_branch, existing_branches, merged_branches, computed>>

\* for line in gone_branches: if '[gone]' in line: run_cmd(f"git branch -D {branch}"); print(...)
PruneGoneLoop ==
    /\ pc = "gone_loop"
    /\ LET j == NextActing(GoneActing, i, Len(gone_branches)) IN
       /\ j <= Len(gone_branches)
       /\ \E r \in GitRun(Cmd("git branch -D", GoneName(gone_branches[j]), Empty),
                          branches, head) :
             /\ run_cmd(Cmd("git branch -D", GoneName(gone_branches[j]), Empty), r)
             /\ IF Succeeded(r)
                THEN /\ out' = Append(out, Msg("Deleted stale branch",
                                               GoneName(gone_branches[j])))
                     /\ i' = j + 1
                     /\ UNCHANGED <<pc, status>>
                ELSE /\ Raise("CalledProcessError")
                     /\ UNCHANGED <<out, i>>
    /\ UNCHANGED <<run, args, http, pr_data, local_branch, base_branch,
                   current_branch, existing_branches, merged_branches,
                   gone_branches, computed>>

\* The second loop is over: prune_branches returns.
PruneReturn ==
    /\ pc = "gone_loop"
    /\ NextActing(GoneActing, i, Len(gone_branches)) > Len(gone_branches)
    /\ Return
    /\ UNCHANGED <<run, args, cmds, out, http, locals, branches, head, computed>>

\* ---------------------------------------------------------- specification

Next ==
    \/ Main
    \/ Invoke
    \/ FetchPrJson
    \/ CheckoutPrMerged
    \/ CheckoutPrClosed
    \/ CheckoutPrOpen
    \/ ShowCurrent
    \/ CheckoutBase
    \/ ListBranches
    \/ DeleteLocal
    \/ CreateBranch
    \/ Pull
    \/ PruneListMerged
    \/ PruneShowCurrent
    \/ PruneMergedLoop
    \/ PruneFetch
    \/ PruneListGone
    \/ PruneGoneLoop
    \/ PruneReturn

Spec == Init /\ [][Next]_vars

\* ------------------------------------------------------------ properties

\* The positions of the log that hold a command of one of the kinds ops.
Issued(ops) == {k \in 1..Len(cmds) : cmds[k].op \in ops}

IssuedOk(ops) == {k \in Issued(ops) : cmds[k].ok}

Printed(msg) == {k \in 1..Len(out) : out[k].msg = msg}

Deletions == {"git branch -d", "git branch -D"}

\* The invocation is past main() and in the named flow.
InPrune == pc # "main" /\ args.prune
InCheckout == pc # "main" /\ ~args.prune /\ Truthy(args.pr_number)
\* checkout_pr found the PR open and computed its names.
OpenPr == InCheckout /\ local_branch # Empty
Returned == pc = "exit" /\ status = "returned"

\* C1: prune_branches issues no branch deletion, safe or forced, whose target
\* is main, master or the branch checked out when the deletion is issued.
C1_PruneSparesProtected ==
    InPrune =>
        \A k \in Issued(Deletions) : cmds[k].a \notin {main, master, cmds[k].head}

\* C2: for a PR record that is merged, or closed and not merged, checkout_pr
\* issues no git command at all and returns normally.
C2_MergedOrClosedIssuesNothing ==
    (InCheckout /\ pr_data # NoPr /\ (pr_data.merged \/ pr_data.state = "closed")) =>
        /\ cmds = << >>
        /\ pc \in {"merged?", "exit"}
        /\ pc = "exit" => status = "returned" /\ ExitCode = 0
        /\ local_branch = Empty

C2_Witness ==
    /\ InCheckout /\ Returned
    /\ ~pr_data.merged /\ pr_data.state = "closed"
    /\ Printed("is closed") # {}

\* The metadata request of this invocation failed.
FetchFailed == InCheckout /\ pc = "exit" /\ http = 1 /\ pr_data = NoPr

\* C3: any failure of the metadata request, a non-2xx response or a
\* connection failure, prints the error message, ends the process with exit
\* code 1 by sys.exit, and no git command is issued.
C3_FetchFailureReported ==
    FetchFailed =>
        /\ Printed("Error fetching PR data") # {}
        /\ status = "SystemExit(1)"
        /\ ExitCode = 1
        /\ cmds = << >>

\* The branch a line of a branch listing describes: the name after the
\* marker column.
DescribedBranch(line) == Word(lstrip(line, MarkerChars))

\* C4: after a prune that ran to its end, the force-deletes issued are, line
\* by line, the branches described by the lines of the verbose listing that
\* contain [gone]: one per such line, none for any other line.
C4_GoneLinesForceDeleted ==
    (InPrune /\ Returned) =>
        LET gone == SelectSeq(gone_branches, LAMBDA l : Contains(l, GoneMarker))
            dels == SelectSeq(cmds, LAMBDA c : c.op = "git branch -D")
        IN  /\ Len(dels) = Len(gone)
            /\ \A k \in 1..Len(gone) : dels[k].a = DescribedBranch(gone[k])

IsCmd(c, op, a, b) == c.op = op /\ c.a = a /\ c.b = b

\* C5: for an open PR, once the local branches are listed: if local_branch
\* is a branch of the repository, the next command is the one force-delete
\* of local_branch, and the create-and-checkout comes after it; if it is
\* not, no delete is ever issued and the next command is the
\* create-and-checkout; the pull follows the create-and-checkout.
C5_DeleteBeforeCreate ==
    OpenPr =>
        /\ \A j \in Issued({"git branch -D", "git checkout -b", "git pull"}) :
              \E k \in IssuedOk({"git branch"}) : k < j
        /\ \A k \in IssuedOk({"git branch"}) :
              LET exists == local_branch \in cmds[k].branches
                  n == Len(cmds)
                  create == IF exists THEN k + 2 ELSE k + 1
              IN  /\ k = n => pc = IF exists THEN "delete_local" ELSE "create_branch"
                  /\ Issued({"git branch -D"}) = IF exists /\ k < n THEN {k + 1} ELSE {}
                  /\ exists /\ k < n => IsCmd(cmds[k + 1], "git branch -D", local_branch, Empty)
                  /\ exists /\ k < n /\ cmds[k + 1].ok =>
                        IF n = k + 1 THEN pc = "create_branch" ELSE create <= n
                  /\ Issued({"git checkout -b"}) = IF create <= n THEN {create} ELSE {}
                  /\ create <= n =>
                        IsCmd(cmds[create], "git checkout -b", local_branch, base_branch)
                  /\ create <= n /\ cmds[create].ok =>
                        IF n = create THEN pc = "pull"
                        ELSE n = create + 1 /\ cmds[n].op = "git pull"
                  /\ Issued({"git pull"}) \subseteq {create + 1}

C5_Witness ==
    /\ OpenPr /\ Returned
    /\ \E k \in Issued({"git branch -D"}) :
          /\ cmds[k].ok
          /\ cmds[k + 1].op = "git checkout -b"
          /\ local_branch \in cmds[k].branches

PrunePcs ==
    {"prune_branches", "prune_current", "merged_loop", "list_gone", "gone_loop", "exit"}
CheckoutPcs ==
    {"checkout_pr", "merged?", "show_current", "checkout_base", "list_branches",
     "delete_local", "create_branch", "pull", "exit"}
PruneOps ==
    {"git branch --merged", "git branch --show-current", "git branch -d",
     "git fetch --prune", "git branch -vv", "git branch -D"}
CheckoutOps ==
    {"git branch --show-current", "git checkout", "git branch", "git branch -D",
     "git checkout -b", "git pull"}

C7_LocalBranchUnique ==
    \A p, q \in computed : p.name = q.name => p = q

\* C8: for an open PR, `git checkout base_branch` is issued if and only if
\* the branch checked out when the flow starts differs from base_branch; it
\* is then the second command: after the current-branch query and before
\* the listing, the delete, the create-and-checkout and the pull.
C8_CheckoutBaseIffDiffers ==
    (OpenPr /\ cmds # << >>) =>
        LET differs == cmds[1].head # base_branch
            n == Len(cmds)
        IN  /\ cmds[1].op = "git branch --show-current"
            /\ \A k \in Issued({"git checkout"}) :
                  k = 2 /\ differs /\ IsCmd(cmds[k], "git checkout", base_branch, Empty)
            /\ cmds[1].ok /\ n = 1 =>
                  pc = IF differs THEN "checkout_base" ELSE "list_branches"
            /\ cmds[1].ok /\ n >= 2 => (differs <=> cmds[2].op = "git checkout")
            /\ \A k \in Issued({"git branch", "git branch -D", "git checkout -b", "git pull"}) :
                  k > IF differs THEN 2 ELSE 1

C8_Witness ==
    /\ OpenPr /\ Returned
    /\ cmds[1].head # base_branch
    /\ cmds[2].op = "git checkout"

\* C9: in both flows the first git command that exits non-zero is the last
\* one issued: the invocation ends there with a non-zero exit code, and the
\* message that reports the command's success is not printed.
C9_FirstFailureAborts ==
    /\ \A k \in 1..Len(cmds) :
          ~cmds[k].ok =>
              /\ k = Len(cmds)
              /\ pc = "exit"
              /\ status = "CalledProcessError"
              /\ ExitCode # 0
    /\ InPrune =>
          /\ Cardinality(Printed("Deleted merged branch")) =
                Cardinality(IssuedOk({"git branch -d"}))
          /\ Cardinality(Printed("Deleted stale branch")) =
                Cardinality(IssuedOk({"git branch -D"}))
    /\ InCheckout =>
          /\ Printed("is ready for use") # {} <=> IssuedOk({"git pull"}) # {}
          /\ Printed("Pulled PR") # {} <=> IssuedOk({"git pull"}) # {}
          /\ (Printed("exists, refreshing it") \cup Printed("does not exist")) # {}
                <=> IssuedOk({"git branch"}) # {}

\* A force-delete succeeded and the create-and-checkout after it failed: the
\* flow stopped with local_branch gone and nothing issued to restore it.
C9_Witness ==
    /\ OpenPr
    /\ status = "CalledProcessError"
    /\ \E k \in IssuedOk({"git branch -D"}) :
          /\ k + 1 = Len(cmds)
          /\ cmds[k + 1].op = "git checkout -b"
          /\ ~cmds[k + 1].ok
    /\ local_branch \notin branches

\* C10: for an open PR whose local_branch differs from base_branch, the
\* force-delete is issued only while base_branch is checked out, never while
\* local_branch is; and after a run in which every command succeeded,
\* local_branch is checked out.
C10_DeleteWhileOnBase ==
    (OpenPr /\ local_branch # base_branch) =>
        /\ \A k \in Issued({"git branch -D"}) :
              cmds[k].head = base_branch /\ cmds[k].head # local_branch
        /\ Returned => head = local_branch

\* The run started with local_branch checked out, and deleted it.
C10_Witness ==
    /\ OpenPr /\ Returned
    /\ local_branch # base_branch
    /\ cmds[1].head = local_branch
    /\ IssuedOk({"git branch -D"}) # {}

====
